---------------------------- MODULE Spec2Model ----------------------------
(***************************************************************************)
(* A model of microscopemetrics.samples: the analysis type registries, the *)
(* schema conversion functions (numpy_to_inlined_mask,                     *)
(* numpy_to_inlined_image, dict_to_inlined_table), the AnalysisMixin and   *)
(* the FieldHomogeneityAnalysis sample of samples/field_illum.py.          *)
(*                                                                         *)
(* The base class Analysis that FieldHomogeneityAnalysis derives from      *)
(* (add_data_requirement, add_metadata_requirement, the binding of values, *)
(* list_unmet_requirements, get_data_values, the output list) and the      *)
(* model.Table constructor are used by field_illum.py but defined in       *)
(* neither source file; they are modelled from the specification and are   *)
(* marked "from the specification" where they are defined.                 *)
(***************************************************************************)
EXTENDS Integers, Sequences

VARIABLES
    \* ---- one analysis instance (FieldHomogeneityAnalysis) ----
    bound,          \* requirement name -> <<>> (no value bound) or <<v>>
    output,         \* self.output: the sequence of artifacts appended so far
    pc,             \* position inside run(): "idle" outside a call
    locals,         \* run()'s local variables once the helpers have returned
    lastRun,        \* how the latest call of run() ended ("none" before any)
    outputAtCall,   \* history: self.output when the latest run() was entered
    unmetAtCall,    \* history: list_unmet_requirements() at that moment
    validated,      \* history: <<>> or <<[ret, unmet]>> of the latest validate_requirements()
    runs,           \* number of run() calls entered so far
    \* ---- schema conversion of one array ----
    arr,            \* the input array
    maskRes,        \* <<>> or <<result of numpy_to_inlined_mask(arr)>>
    imageRes,       \* <<>> or <<result of numpy_to_inlined_image(arr)>>
    \* ---- schema conversion of one dictionary ----
    dict,           \* the input dictionary: its entries in insertion order
    tableRes,       \* <<>> or <<result of dict_to_inlined_table(dict)>>
    \* ---- the three analysis type registries ----
    imageRegistry,
    datasetRegistry,
    progressionRegistry,
    regLog,         \* history: every registration made, in order
    \* ---- the profile statistics of one image ----
    img,            \* the input image: its rows, each a sequence of intensities
    profileRes      \* <<>> or <<result of get_profile_statistics_table(img)>>

analysisVars == <<bound, output, pc, locals, lastRun, outputAtCall, unmetAtCall,
                  validated, runs>>
convVars == <<arr, maskRes, imageRes>>
tableVars == <<dict, tableRes>>
registryVars == <<imageRegistry, datasetRegistry, progressionRegistry, regLog>>
profileVars == <<img, profileRes>>
vars == <<analysisVars, convVars, tableVars, registryVars, profileVars>>

-----------------------------------------------------------------------------
(* Bounds of the model.                                                    *)

\* run() is entered at most this many times on the one instance.
MaxRuns == 2

-----------------------------------------------------------------------------
(* Sequence helpers.                                                       *)

IsPrefix(s, t) == Len(s) <= Len(t) /\ SubSeq(t, 1, Len(s)) = s

RECURSIVE SeqProduct(_)
SeqProduct(s) == IF s = <<>> THEN 1 ELSE Head(s) * SeqProduct(Tail(s))

-----------------------------------------------------------------------------
(* FieldHomogeneityAnalysis: the requirements its constructor declares.    *)

\* self.add_data_requirement(name="image", ...): optional is left at its
\* default (not optional), no default value.
DataRequirements ==
    << [name |-> "image", data_type |-> "np.ndarray", units |-> <<>>,
        optional |-> FALSE, default |-> <<>>] >>

\* A constructor that declares bitDepth as a required parameter.
MetadataRequirements_BitDepthRequired ==
    << [name |-> "bitDepth", data_type |-> "Tuple[float, float]", units |-> <<"bits">>,
        optional |-> FALSE, default |-> <<>>],
       [name |-> "threshold", data_type |-> "int", units |-> <<>>,
        optional |-> TRUE, default |-> <<10>>] >>

\* self.add_metadata_requirement(name="bitDepth", ..., optional=True) and
\* self.add_metadata_requirement(name="threshold", ..., optional=True, default=10)
MetadataRequirements ==
    << [name |-> "bitDepth", data_type |-> "Tuple[float, float]", units |-> <<"bits">>,
        optional |-> TRUE, default |-> <<>>],
       [name |-> "threshold", data_type |-> "int", units |-> <<>>,
        optional |-> TRUE, default |-> <<10>>] >>

\* Both namespaces, data first, each in declaration order.
AllRequirements == DataRequirements \o MetadataRequirements

RequirementNames == {AllRequirements[i].name : i \in 1..Len(AllRequirements)}

\* The images a caller binds to "image": rows of pixel intensities.  The two
\* zero-size arrays (shapes (0, 0) and (1, 0)) are inputs on which np.max
\* raises.
ImgEmpty == <<>>
ImgNoColumns == << <<>> >>
ImgOne == << <<1>> >>
ImgTwo == << <<0, 1>>, <<2, 3>> >>
Images == {ImgEmpty, ImgNoColumns, ImgOne, ImgTwo}

\* The values a caller may bind to each requirement.
BindableValues(name) ==
    CASE name = "image" -> Images
      [] name = "bitDepth" -> {<<8, 16>>}
      [] name = "threshold" -> {5}

-----------------------------------------------------------------------------
(* The requirement registry of the base class (from the specification).    *)

\* A requirement is unmet when it is not optional and has neither a bound
\* value nor a default.
IsUnmet(req, b) == ~req.optional /\ b[req.name] = <<>> /\ req.default = <<>>

RECURSIVE NamesOf(_)
NamesOf(reqs) ==
    IF reqs = <<>> THEN <<>> ELSE <<Head(reqs).name>> \o NamesOf(Tail(reqs))

\* list_unmet_requirements(): the names of the unmet requirements, in order.
ListUnmetRequirements(b) ==
    LET Test(req) == IsUnmet(req, b)
    IN  NamesOf(SelectSeq(AllRequirements, Test))

RequirementNamed(name) ==
    CHOOSE req \in {AllRequirements[i] : i \in 1..Len(AllRequirements)} : req.name = name

\* get_data_values(name) / get_metadata_values(name): the bound value, else
\* the default, else RequirementUnmetError.
GetValues(b, name) ==
    IF b[name] # <<>> THEN [ok |-> TRUE, val |-> b[name][1]]
    ELSE IF RequirementNamed(name).default # <<>>
         THEN [ok |-> TRUE, val |-> RequirementNamed(name).default[1]]
         ELSE [ok |-> FALSE, val |-> "RequirementUnmetError"]

\* model.Table(name=..., description=..., table=...).  From the specification.
Table(name, description, table) ==
    [kind |-> "Table", name |-> name, description |-> description, table |-> table]

-----------------------------------------------------------------------------
(* AnalysisMixin.validate_requirements                                     *)

\* Logs "Validating requirements..." and returns True.
ValidateRequirements(b) == TRUE

-----------------------------------------------------------------------------
(* FieldHomogeneityAnalysis.run                                            *)

\* A run() that never takes the early return.
RunAborts_Never(unmet) == FALSE

\* if len(self.list_unmet_requirements()): ... return False
RunAborts(unmet) == Len(unmet) # 0

\* np.max(img), the first statement of the first helper run() calls
\* (get_norm_intensity_matrix), raises ValueError on a zero-size array: one
\* with no rows, or one whose rows have no columns.
HelpersRaise(image) == Len(image) = 0 \/ Len(image[1]) = 0

\* The value a helper returns, kept symbolic: which helper, on which image.
HelperResult(fn, image) == [fn |-> fn, arg |-> image]

\* The locals of run() after its four helper calls, in the order of the calls.
RunLocals(image) ==
    [norm_intensity_data |-> HelperResult("get_norm_intensity_matrix", image),
     max_intensity_region_table |-> HelperResult("get_max_intensity_region_table", image),
     intensity_plot_data |-> HelperResult("get_intensity_plot", image),
     profile_stat_table |-> HelperResult("get_profile_statistics_table", image)]

NoLocals == [norm_intensity_data |-> <<>>, max_intensity_region_table |-> <<>>,
             intensity_plot_data |-> <<>>, profile_stat_table |-> <<>>]

\* A run() that appends norm_intensity_data before max_intensity_region_table.
AppendedTable_Swapped(step, loc) ==
    CASE step = 1 -> Table("norm_intensity_data",
                           "Dataframe containing coordinates", loc.norm_intensity_data)
      [] step = 2 -> Table("max_intensity_region_table",
                           "Dataframe containing coordinates", loc.max_intensity_region_table)
      [] step = 3 -> Table("intensity_plot_data",
                           "Dataframe containing coordinates", loc.intensity_plot_data)
      [] step = 4 -> Table("profile_stat_table",
                           "Dataframe containing coordinates", loc.profile_stat_table)

\* The table the step-th self.output.append(...) of run() appends.
AppendedTable(step, loc) ==
    CASE step = 1 -> Table("max_intensity_region_table",
                           "Dataframe containing coordinates", loc.max_intensity_region_table)
      [] step = 2 -> Table("norm_intensity_data",
                           "Dataframe containing coordinates", loc.norm_intensity_data)
      [] step = 3 -> Table("intensity_plot_data",
                           "Dataframe containing coordinates", loc.intensity_plot_data)
      [] step = 4 -> Table("profile_stat_table",
                           "Dataframe containing coordinates", loc.profile_stat_table)

NumAppends == 4

AppendPc(step) ==
    CASE step = 0 -> "computed"
      [] step = 1 -> "appended1"
      [] step = 2 -> "appended2"
      [] step = 3 -> "appended3"
      [] step = 4 -> "appended4"

-----------------------------------------------------------------------------
(* The analysis instance as a state machine.                               *)

\* The state after FieldHomogeneityAnalysis(): requirements declared, nothing
\* bound, no output.
AnalysisInit ==
    /\ bound = [n \in RequirementNames |-> <<>>]
    /\ output = <<>>
    /\ pc = "idle"
    /\ locals = NoLocals
    /\ lastRun = "none"
    /\ outputAtCall = <<>>
    /\ unmetAtCall = <<>>
    /\ validated = <<>>
    /\ runs = 0

\* The caller binds a value to a declared requirement (last bind wins).
\* From the specification.
Bind ==
    /\ pc = "idle"
    /\ \E name \in RequirementNames : \E v \in BindableValues(name) :
           bound' = [bound EXCEPT ![name] = <<v>>]
    /\ UNCHANGED <<output, pc, locals, lastRun, outputAtCall, unmetAtCall,
                   validated, runs>>
    /\ UNCHANGED <<convVars, tableVars, registryVars, profileVars>>

\* A call of validate_requirements().
Validate ==
    /\ pc = "idle"
    /\ validated' = << [ret |-> ValidateRequirements(bound),
                        unmet |-> ListUnmetRequirements(bound)] >>
    /\ UNCHANGED <<bound, output, pc, locals, lastRun, outputAtCall, unmetAtCall, runs>>
    /\ UNCHANGED <<convVars, tableVars, registryVars, profileVars>>

\* run() is entered and takes the early return: logs the error, returns False.
RunAbort ==
    /\ pc = "idle"
    /\ runs < MaxRuns
    /\ RunAborts(ListUnmetRequirements(bound))
    /\ runs' = runs + 1
    /\ outputAtCall' = output
    /\ unmetAtCall' = ListUnmetRequirements(bound)
    /\ lastRun' = "false"
    /\ UNCHANGED <<bound, output, pc, locals, validated>>
    /\ UNCHANGED <<convVars, tableVars, registryVars, profileVars>>

\* run() is entered, passes the check, reads the image and calls the four
\* helpers.  An exception (of get_data_values or of a helper) leaves run().
RunCompute ==
    /\ pc = "idle"
    /\ runs < MaxRuns
    /\ ~RunAborts(ListUnmetRequirements(bound))
    /\ runs' = runs + 1
    /\ outputAtCall' = output
    /\ unmetAtCall' = ListUnmetRequirements(bound)
    /\ LET image == GetValues(bound, "image")
       IN  IF ~image.ok \/ HelpersRaise(image.val)
           THEN /\ lastRun' = "raised"
                /\ UNCHANGED <<pc, locals>>
           ELSE /\ lastRun' = "running"
                /\ pc' = "computed"
                /\ locals' = RunLocals(image.val)
    /\ UNCHANGED <<bound, output, validated>>
    /\ UNCHANGED <<convVars, tableVars, registryVars, profileVars>>

\* The next self.output.append(model.Table(...)) of run().
RunAppend ==
    /\ \E step \in 1..NumAppends :
           /\ pc = AppendPc(step - 1)
           /\ output' = Append(output, AppendedTable(step, locals))
           /\ pc' = AppendPc(step)
    /\ UNCHANGED <<bound, locals, lastRun, outputAtCall, unmetAtCall, validated, runs>>
    /\ UNCHANGED <<convVars, tableVars, registryVars, profileVars>>

\* return True
RunReturn ==
    /\ pc = AppendPc(NumAppends)
    /\ pc' = "idle"
    /\ lastRun' = "true"
    /\ locals' = NoLocals
    /\ UNCHANGED <<bound, output, outputAtCall, unmetAtCall, validated, runs>>
    /\ UNCHANGED <<convVars, tableVars, registryVars, profileVars>>

-----------------------------------------------------------------------------
(* numpy arrays.                                                           *)
(*                                                                         *)
(* An array is [dtype, shape, content]: shape is the tuple of axis sizes   *)
(* (array.ndim = Len(shape)), and the element at a 0-based index tuple is  *)
(* ElemAt(array, idx).  The content is either an explicit function from    *)
(* index tuples to values or a ramp: every element is a code of its own    *)
(* index, so that all elements differ.                                     *)

Dtypes == {"bool", "uint8", "int64"}

DtypeValues(dtype) ==
    CASE dtype = "bool" -> BOOLEAN
      [] dtype = "uint8" -> {0, 1, 255}
      [] dtype = "int64" -> {0, 7}

RECURSIVE TuplesOver(_, _)
TuplesOver(n, S) ==
    IF n = 0 THEN {<<>>} ELSE {<<x>> \o t : x \in S, t \in TuplesOver(n - 1, S)}

\* The index tuples of an array of the given shape.
RECURSIVE IndexSet(_)
IndexSet(shape) ==
    IF shape = <<>> THEN {<<>>}
    ELSE {<<i>> \o rest : i \in 0..(Head(shape) - 1), rest \in IndexSet(Tail(shape))}

\* The decimal code of an index tuple: <<1, 0, 2>> is 102.
RECURSIVE IndexCode(_)
IndexCode(idx) ==
    IF idx = <<>> THEN 0
    ELSE IndexCode(SubSeq(idx, 1, Len(idx) - 1)) * 10 + idx[Len(idx)]

RampValue(dtype, code) ==
    CASE dtype = "bool" -> (code % 256) # 0
      [] dtype = "uint8" -> code % 256
      [] dtype = "int64" -> code

ElemAt(array, idx) ==
    IF array.content.kind = "explicit" THEN array.content.f[idx]
    ELSE RampValue(array.dtype, IndexCode(idx))

Explicit(f) == [kind |-> "explicit", f |-> f]
Ramp == [kind |-> "ramp", f |-> <<>>]

\* array.astype(bool): every element becomes (element != 0).
AsTypeBool(array) ==
    [dtype |-> "bool", shape |-> array.shape,
     content |-> IF array.content.kind = "explicit"
                 THEN Explicit([idx \in DOMAIN array.content.f |-> array.content.f[idx] # 0])
                 ELSE Ramp]

\* A flatten that walks the array in column-major (Fortran) order.
RECURSIVE FlattenFortranFrom(_, _), FlattenFortranRange(_, _, _)
FlattenFortranFrom(array, suffix) ==
    IF Len(suffix) = Len(array.shape) THEN <<ElemAt(array, suffix)>>
    ELSE FlattenFortranRange(array, suffix, 0)
FlattenFortranRange(array, suffix, i) ==
    IF i >= array.shape[Len(array.shape) - Len(suffix)] THEN <<>>
    ELSE FlattenFortranFrom(array, <<i>> \o suffix)
         \o FlattenFortranRange(array, suffix, i + 1)

Flatten_FortranOrder(array) == FlattenFortranFrom(array, <<>>)

\* array.flatten().tolist(): the elements in row-major (C) order, the first
\* index varying slowest.
RECURSIVE FlattenFrom(_, _), FlattenRange(_, _, _)
FlattenFrom(array, prefix) ==
    IF Len(prefix) = Len(array.shape) THEN <<ElemAt(array, prefix)>>
    ELSE FlattenRange(array, prefix, 0)
FlattenRange(array, prefix, i) ==
    IF i >= array.shape[Len(prefix) + 1] THEN <<>>
    ELSE FlattenFrom(array, Append(prefix, i)) \o FlattenRange(array, prefix, i + 1)

Flatten(array) == FlattenFrom(array, <<>>)

-----------------------------------------------------------------------------
(* Results of a conversion: a schema object or a raised exception.         *)

NoObj == [kind |-> "none"]
NoExc == [class |-> "none", msg |-> <<>>]
Returned(obj) == [status |-> "ok", obj |-> obj, exc |-> NoExc]
Raised(class, msg) == [status |-> "raised", obj |-> NoObj, exc |-> [class |-> class, msg |-> msg]]

\* mm_schema.PixelSeries(values=n) and its siblings.
PixelSeries(n) == [series |-> "PixelSeries", values |-> n]
TimeSeries(n) == [series |-> "TimeSeries", values |-> n]
ChannelSeries(n) == [series |-> "ChannelSeries", values |-> n]

\* The keyword arguments passed through unchanged; None is the default.
None == "None"
NoMeta == [name |-> None, description |-> None, image_url |-> None,
           source_image_url |-> None]
Metas == {NoMeta,
          [name |-> "m", description |-> "d", image_url |-> "u",
           source_image_url |-> "s"]}

-----------------------------------------------------------------------------
(* numpy_to_inlined_mask                                                   *)

\* if array.dtype != bool and array.dtype == np.uint8: array = array.astype(bool)
\* (astype(bool) of a uint8 array never raises ValueError).
CoerceToBool(array) ==
    IF array.dtype # "bool" /\ array.dtype = "uint8" THEN AsTypeBool(array) ELSE array

NumpyToInlinedMask(array, meta) ==
    IF Len(array.shape) # 2
    THEN Raised("ValueError", <<"Input array should be 2D">>)
    ELSE LET a == CoerceToBool(array)
         IN  IF a.dtype # "bool"
             THEN Raised("ValueError", <<"Input array should be of type bool">>)
             ELSE Returned([kind |-> "ImageMask",
                            name |-> meta.name,
                            description |-> meta.description,
                            image_url |-> meta.image_url,
                            source_image_url |-> meta.source_image_url,
                            data |-> Flatten(a),
                            y |-> PixelSeries(a.shape[1]),
                            x |-> PixelSeries(a.shape[2])])

-----------------------------------------------------------------------------
(* numpy_to_inlined_image                                                  *)

\* The dispatch on array.ndim: which branch of the function is taken.
ImageBranch_AtLeast5(ndim) ==
    IF ndim >= 5 THEN "5D" ELSE IF ndim = 2 THEN "2D" ELSE "unsupported"

ImageBranch(ndim) ==
    IF ndim = 5 THEN "5D" ELSE IF ndim = 2 THEN "2D" ELSE "unsupported"

Image2DOf(array, meta) ==
    [kind |-> "Image2D",
     name |-> meta.name,
     description |-> meta.description,
     image_url |-> meta.image_url,
     source_image_url |-> meta.source_image_url,
     data |-> Flatten(array),
     y |-> PixelSeries(array.shape[1]),
     x |-> PixelSeries(array.shape[2])]

\* An Image5D whose y and x are read from each other's axis.
Image5DOf_YXSwapped(array, meta) ==
    [kind |-> "Image5D",
     name |-> meta.name,
     description |-> meta.description,
     image_url |-> meta.image_url,
     source_image_url |-> meta.source_image_url,
     data |-> Flatten(array),
     t |-> TimeSeries(array.shape[1]),
     z |-> PixelSeries(array.shape[2]),
     y |-> PixelSeries(array.shape[4]),
     x |-> PixelSeries(array.shape[3]),
     c |-> ChannelSeries(array.shape[5])]

Image5DOf(array, meta) ==
    [kind |-> "Image5D",
     name |-> meta.name,
     description |-> meta.description,
     image_url |-> meta.image_url,
     source_image_url |-> meta.source_image_url,
     data |-> Flatten(array),
     t |-> TimeSeries(array.shape[1]),
     z |-> PixelSeries(array.shape[2]),
     y |-> PixelSeries(array.shape[3]),
     x |-> PixelSeries(array.shape[4]),
     c |-> ChannelSeries(array.shape[5])]

NumpyToInlinedImage(array, meta) ==
    LET ndim == Len(array.shape)
    IN  CASE ImageBranch(ndim) = "5D" -> Returned(Image5DOf(array, meta))
          [] ImageBranch(ndim) = "2D" -> Returned(Image2DOf(array, meta))
          [] OTHER -> Raised("NotImplementedError",
                             <<"Array of dimension ", ndim,
                               " is not supported by this function">>)

-----------------------------------------------------------------------------
(* The conversion of one array as a state machine.                         *)

\* Arrays have at most MaxNdim axes, each of size at most MaxDim.
MaxNdim == 6
MaxDim == 2

\* The input is a 2-dimensional array with any content, or an array of another
\* rank whose content is a ramp.
ConvInit ==
    /\ \E n \in 0..MaxNdim : \E shape \in TuplesOver(n, 0..MaxDim) :
           IF n = 2
           THEN \E d \in Dtypes : \E f \in [IndexSet(shape) -> DtypeValues(d)] :
                    arr = [dtype |-> d, shape |-> shape, content |-> Explicit(f)]
           ELSE \E d \in Dtypes :
                    arr = [dtype |-> d, shape |-> shape, content |-> Ramp]
    /\ maskRes = <<>>
    /\ imageRes = <<>>

\* A call numpy_to_inlined_mask(arr, name, description, image_url, source_image_url).
ToMask ==
    /\ maskRes = <<>> /\ imageRes = <<>>
    /\ \E meta \in Metas : maskRes' = <<NumpyToInlinedMask(arr, meta)>>
    /\ UNCHANGED <<arr, imageRes>>
    /\ UNCHANGED <<analysisVars, tableVars, registryVars, profileVars>>

\* A call numpy_to_inlined_image(arr, name, description, image_url, source_image_url).
ToImage ==
    /\ maskRes = <<>> /\ imageRes = <<>>
    /\ \E meta \in Metas : imageRes' = <<NumpyToInlinedImage(arr, meta)>>
    /\ UNCHANGED <<arr, maskRes>>
    /\ UNCHANGED <<analysisVars, tableVars, registryVars, profileVars>>

-----------------------------------------------------------------------------
(* dict_to_inlined_table                                                   *)
(*                                                                         *)
(* A Python dict is modelled by its entries in insertion order, each       *)
(* [key, value], the keys all different.                                   *)

\* dictionary.keys(): the keys in insertion order.
DictKeys(d) == [i \in 1..Len(d) |-> d[i].key]

\* dictionary[k]
DictGetItem(d, k) == d[CHOOSE i \in 1..Len(d) : d[i].key = k].value

\* A conversion that lists the columns last key first.
DictToInlinedTable_Reversed(dictionary, name, description) ==
    LET keys == DictKeys(dictionary)
        n == Len(keys)
    IN  [kind |-> "TableAsDict",
         name |-> name,
         description |-> description,
         columns |-> [i \in 1..n |-> [name |-> keys[n + 1 - i],
                                      values |-> DictGetItem(dictionary, keys[n + 1 - i])]]]

\* columns=[{"name": k, "values": dictionary[k]} for k in dictionary.keys()]
DictToInlinedTable(dictionary, name, description) ==
    LET keys == DictKeys(dictionary)
    IN  [kind |-> "TableAsDict",
         name |-> name,
         description |-> description,
         columns |-> [i \in 1..Len(keys) |-> [name |-> keys[i],
                                              values |-> DictGetItem(dictionary, keys[i])]]]

\* A dictionary has at most MaxCols entries, each a list of at most MaxColLen values.
MaxCols == 2
MaxColLen == 2

ColumnNames == {"a", "b", "c", "d"}
CellValues == {1, 2}

ColumnValues == UNION {TuplesOver(n, CellValues) : n \in 0..MaxColLen}

RECURSIVE DictsOfSize(_)
DictsOfSize(n) ==
    IF n = 0 THEN {<<>>}
    ELSE {Append(d, [key |-> k, value |-> v]) :
            d \in DictsOfSize(n - 1), k \in ColumnNames, v \in ColumnValues}

HasUniqueKeys(d) == \A i, j \in 1..Len(d) : d[i].key = d[j].key => i = j

TableMetas == {[name |-> None, description |-> None],
               [name |-> "t", description |-> "d"]}

TableInit ==
    /\ \E n \in 0..MaxCols : \E d \in DictsOfSize(n) : HasUniqueKeys(d) /\ dict = d
    /\ tableRes = <<>>

\* A call dict_to_inlined_table(dict, name, description).
ToTable ==
    /\ tableRes = <<>>
    /\ \E meta \in TableMetas :
           tableRes' = <<DictToInlinedTable(dict, meta.name, meta.description)>>
    /\ UNCHANGED dict
    /\ UNCHANGED <<analysisVars, convVars, registryVars, profileVars>>

-----------------------------------------------------------------------------
(* The analysis type registries.                                           *)
(*                                                                         *)
(* A registry is a dict from class name to class, modelled as a function   *)
(* whose domain is the set of names registered.  A class is [name, id]:    *)
(* two different classes may carry the same __name__.                      *)

\* IMAGE_ANALYSIS_REGISTRY = {}, DATASET_ANALYSIS_REGISTRY = {},
\* PROGRESSION_ANALYSIS_REGISTRY = {}
EmptyRegistry == [n \in {} |-> n]

\* A dict assignment that keeps an existing entry (dict.setdefault).
DictSetItem_KeepFirst(reg, key, value) ==
    [k \in DOMAIN reg \cup {key} |-> IF k \in DOMAIN reg THEN reg[k] ELSE value]

\* REGISTRY[key] = value
DictSetItem(reg, key, value) ==
    [k \in DOMAIN reg \cup {key} |-> IF k = key THEN value ELSE reg[k]]

\* At most MaxRegistrations classes are registered.
MaxRegistrations == 3

ClassNames == {"FieldHomogeneityAnalysis", "OtherAnalysis"}
Classes == {[name |-> n, id |-> i] : n \in ClassNames, i \in {1, 2}}
Registries == {"image", "dataset", "progression"}

RegistryInit ==
    /\ imageRegistry = EmptyRegistry
    /\ datasetRegistry = EmptyRegistry
    /\ progressionRegistry = EmptyRegistry
    /\ regLog = <<>>

\* @register_image_analysis
RegisterImageAnalysis ==
    /\ Len(regLog) < MaxRegistrations
    /\ \E cls \in Classes :
           /\ imageRegistry' = DictSetItem(imageRegistry, cls.name, cls)
           /\ regLog' = Append(regLog, [registry |-> "image", cls |-> cls])
    /\ UNCHANGED <<datasetRegistry, progressionRegistry>>
    /\ UNCHANGED <<analysisVars, convVars, tableVars, profileVars>>

\* @register_dataset_analysis
RegisterDatasetAnalysis ==
    /\ Len(regLog) < MaxRegistrations
    /\ \E cls \in Classes :
           /\ datasetRegistry' = DictSetItem(datasetRegistry, cls.name, cls)
           /\ regLog' = Append(regLog, [registry |-> "dataset", cls |-> cls])
    /\ UNCHANGED <<imageRegistry, progressionRegistry>>
    /\ UNCHANGED <<analysisVars, convVars, tableVars, profileVars>>

\* @register_progression_analysis
RegisterProgressionAnalysis ==
    /\ Len(regLog) < MaxRegistrations
    /\ \E cls \in Classes :
           /\ progressionRegistry' = DictSetItem(progressionRegistry, cls.name, cls)
           /\ regLog' = Append(regLog, [registry |-> "progression", cls |-> cls])
    /\ UNCHANGED <<imageRegistry, datasetRegistry>>
    /\ UNCHANGED <<analysisVars, convVars, tableVars, profileVars>>

-----------------------------------------------------------------------------
(* get_profile_statistics_table                                            *)
(*                                                                         *)
(* An image is a non-empty sequence of rows of equal, non-zero length; its *)
(* intensities are integers (np.around(..., 2) leaves integers as they     *)
(* are).  Indices are numpy's: 0-based, a negative index counting from the *)
(* end.                                                                    *)

ImgRows(image) == Len(image)
ImgCols(image) == Len(image[1])

\* img[x, y] for one pair of indices: x along axis 0, y along axis 1.
PixelAt(image, x, y) ==
    LET r == IF x < 0 THEN x + ImgRows(image) ELSE x
        c == IF y < 0 THEN y + ImgCols(image) ELSE y
    IN  image[r + 1][c + 1]

\* np.max(img)
RECURSIVE SeqMax(_)
SeqMax(s) ==
    IF Len(s) = 1 THEN s[1]
    ELSE LET m == SeqMax(Tail(s)) IN IF Head(s) >= m THEN Head(s) ELSE m

ImgMax(image) == SeqMax([i \in 1..ImgRows(image) |-> SeqMax(image[i])])

\* np.where(img == max_intensity), first hit: the positions come in
\* row-major order, so the first has the least row, then the least column.
MaxFoundAt(image) ==
    LET m == ImgMax(image)
        hits == {p \in (0..ImgRows(image) - 1) \X (0..ImgCols(image) - 1) :
                    PixelAt(image, p[1], p[2]) = m}
        x == CHOOSE a \in {p[1] : p \in hits} : \A p \in hits : a <= p[1]
        y == CHOOSE b \in {p[2] : p \in {q \in hits : q[1] = x}} :
                 \A p \in {q \in hits : q[1] = x} : b <= p[2]
    IN  <<x, y>>

\* np.meshgrid(xs, ys) with its default indexing='xy': both grids have
\* Len(ys) rows and Len(xs) columns, xx[i][j] = xs[j] and yy[i][j] = ys[i].
Meshgrid(xs, ys) ==
    [xx |-> [i \in 1..Len(ys) |-> [j \in 1..Len(xs) |-> xs[j]]],
     yy |-> [i \in 1..Len(ys) |-> [j \in 1..Len(xs) |-> ys[i]]]]

\* img[xx, yy] for two index grids of one shape: the grid of img[xx[i][j], yy[i][j]].
FancyIndex(image, xx, yy) ==
    [i \in 1..Len(xx) |-> [j \in 1..Len(xx[i]) |-> PixelAt(image, xx[i][j], yy[i][j])]]

\* .flatten() of a 2-dimensional grid: its rows one after the other.
RECURSIVE FlattenRows(_)
FlattenRows(grid) ==
    IF Len(grid) = 0 THEN <<>> ELSE Head(grid) \o FlattenRows(Tail(grid))

(* float64 arithmetic.  max_intensities / max_intensity is numpy's          *)
(* true_divide on float64, and np.around(a, 2) on a float64 array is       *)
(* rint(a * 100) / 100: each step rounds its exact result to the nearest   *)
(* double, a tie to the one with an even significand.  A positive double   *)
(* is [m, e]: m its significand, SignificandBits bits, most significant    *)
(* first (m[1] = 1), and e the exponent of its last bit, so that its value *)
(* is m * 2^e.  Natural numbers beyond the machine integers are sequences  *)
(* of bits, most significant first.                                        *)

SignificandBits == 53

Zeros(k) == [i \in 1..k |-> 0]

RECURSIVE Pow2(_)
Pow2(k) == IF k = 0 THEN 1 ELSE 2 * Pow2(k - 1)

\* The natural number a sequence of bits stands for (split in two halves).
RECURSIVE BitsValue(_)
BitsValue(b) ==
    IF Len(b) = 0 THEN 0
    ELSE IF Len(b) = 1 THEN b[1]
    ELSE LET h == Len(b) \div 2
         IN  BitsValue(SubSeq(b, 1, h)) * Pow2(Len(b) - h)
                 + BitsValue(SubSeq(b, h + 1, Len(b)))

\* The width low-order bits of the natural number n.
ToBits(n, width) == [i \in 1..width |-> (n \div Pow2(width - i)) % 2]

\* bits without its leading zeros (some bit of it is 1).
StripLeadingZeros(bits) ==
    LET first == CHOOSE i \in 1..Len(bits) :
                     bits[i] = 1 /\ \A j \in 1..i - 1 : bits[j] = 0
    IN  SubSeq(bits, first, Len(bits))

\* bits + 1: the trailing ones become zeros and the zero before them a one.
Increment(bits) ==
    IF \A i \in 1..Len(bits) : bits[i] = 1 THEN <<1>> \o Zeros(Len(bits))
    ELSE LET last == CHOOSE i \in 1..Len(bits) :
                         bits[i] = 0 /\ \A j \in i + 1..Len(bits) : bits[j] = 1
         IN  SubSeq(bits, 1, last - 1) \o <<1>> \o Zeros(Len(bits) - last)

\* The double nearest to bits * 2^e (plus less than one unit of the last bit
\* when sticky), a tie to even.  bits[1] = 1 and Len(bits) >= SignificandBits.
RoundToDouble(bits, sticky, e) ==
    LET extra == Len(bits) - SignificandBits
        kept == SubSeq(bits, 1, SignificandBits)
        guard == extra > 0 /\ bits[SignificandBits + 1] = 1
        below == sticky \/ \E i \in SignificandBits + 2..Len(bits) : bits[i] = 1
        up == guard /\ (below \/ kept[SignificandBits] = 1)
        inc == IF up THEN Increment(kept) ELSE kept
    IN  IF Len(inc) > SignificandBits
        THEN [m |-> SubSeq(inc, 1, SignificandBits), e |-> e + extra + 1]
        ELSE [m |-> inc, e |-> e + extra]

\* n / d = (z.n / z.d) * 2^z.s with z.d <= z.n < 2 * z.d, for n, d > 0.
RECURSIVE Normalise(_, _, _)
Normalise(n, d, s) ==
    IF n < d THEN Normalise(2 * n, d, s - 1)
    ELSE IF n >= 2 * d THEN Normalise(n, 2 * d, s + 1)
    ELSE [n |-> n, d |-> d, s |-> s]

\* The first k bits of the binary expansion of r / d (r < d) and what is
\* left: one step of long division for one bit, longer runs in two halves.
RECURSIVE QuotientBits(_, _, _)
QuotientBits(r, d, k) ==
    IF k = 0 THEN [bits |-> <<>>, rem |-> r]
    ELSE IF k = 1
    THEN LET bit == IF 2 * r >= d THEN 1 ELSE 0
         IN  [bits |-> <<bit>>, rem |-> 2 * r - bit * d]
    ELSE LET first == QuotientBits(r, d, k \div 2)
             second == QuotientBits(first.rem, d, k - k \div 2)
         IN  [bits |-> first.bits \o second.bits, rem |-> second.rem]

\* n / d on float64, for integers n, d > 0.
TrueDivide(n, d) ==
    LET z == Normalise(n, d, 0)
        q == QuotientBits(z.n - z.d, z.d, SignificandBits)
    IN  RoundToDouble(<<1>> \o q.bits, q.rem # 0, z.s - SignificandBits)

\* x * 100 on float64.  The exact product is computed on the significand cut
\* into limbs of LimbBits bits, low limb first, so that no step leaves the
\* machine integers.
LimbBits == 20

Times100(x) ==
    LET base == Pow2(LimbBits)
        top == SignificandBits - 2 * LimbBits
        a2 == BitsValue(SubSeq(x.m, 1, top))
        a1 == BitsValue(SubSeq(x.m, top + 1, top + LimbBits))
        a0 == BitsValue(SubSeq(x.m, top + LimbBits + 1, SignificandBits))
        p0 == 100 * a0
        p1 == 100 * a1 + p0 \div base
        p2 == 100 * a2 + p1 \div base
        p == StripLeadingZeros(ToBits(p2, LimbBits) \o ToBits(p1 % base, LimbBits)
                                   \o ToBits(p0 % base, LimbBits))
    IN  RoundToDouble(p, FALSE, x.e)

\* np.rint(x): the nearest integer, a tie to the even one.
Rint(x) ==
    IF x.e >= 0 THEN BitsValue(x.m \o Zeros(x.e))
    ELSE LET f == -x.e
             whole == IF f >= SignificandBits THEN 0
                      ELSE BitsValue(SubSeq(x.m, 1, SignificandBits - f))
             frac == IF f >= SignificandBits THEN Zeros(f - SignificandBits) \o x.m
                     ELSE SubSeq(x.m, SignificandBits - f + 1, SignificandBits)
             half == frac[1] = 1
             below == \E i \in 2..Len(frac) : frac[i] = 1
         IN  IF half /\ (below \/ whole % 2 = 1) THEN whole + 1 ELSE whole

Abs(n) == IF n < 0 THEN -n ELSE n

\* The values of a division by zero: nan for 0 / 0, else an infinity of the
\* sign of the numerator.
NotANumber == "nan"
Infinity == "inf"
NegInfinity == "-inf"

\* np.around(v / max_intensity, 2) for integers v and max_intensity, in
\* hundredths.  Division, multiplication and rint are symmetric in the sign;
\* a negative zero is the hundredths 0.
RelativeToMax(v, max_intensity) ==
    IF max_intensity = 0
    THEN [finite |-> FALSE, hundredths |-> 0,
          special |-> IF v = 0 THEN NotANumber
                      ELSE IF v > 0 THEN Infinity ELSE NegInfinity]
    ELSE IF v = 0 THEN [finite |-> TRUE, hundredths |-> 0, special |-> ""]
    ELSE LET sign == IF (v < 0) = (max_intensity < 0) THEN 1 ELSE -1
             rounded == Rint(Times100(TrueDivide(Abs(v), Abs(max_intensity))))
         IN  [finite |-> TRUE, hundredths |-> sign * rounded, special |-> ""]

\* max_intensities_relative[4] = 1.0
One == [finite |-> TRUE, hundredths |-> 100, special |-> ""]

\* The nine location labels; the fifth names the place of the maximum.
LocationLabels(max_found_at) ==
    << [label |-> "top-left corner", at |-> <<>>],
       [label |-> "upper-middle pixel", at |-> <<>>],
       [label |-> "top-right corner", at |-> <<>>],
       [label |-> "left-middle pixel", at |-> <<>>],
       [label |-> "maximum found at", at |-> max_found_at],
       [label |-> "right-middle pixel", at |-> <<>>],
       [label |-> "bottom-left corner", at |-> <<>>],
       [label |-> "bottom-middle pixel", at |-> <<>>],
       [label |-> "bottom-right corner", at |-> <<>>] >>

GetProfileStatisticsTable(image) ==
    LET max_intensity == ImgMax(image)
        max_found_at == MaxFoundAt(image)
        grids == Meshgrid(<<0, ImgRows(image) \div 2, -1>>,
                          <<0, ImgCols(image) \div 2, -1>>)
        picked == FlattenRows(FancyIndex(image, grids.xx, grids.yy))
        max_intensities == [picked EXCEPT ![5] = max_intensity]
        max_intensities_relative ==
            [[k \in 1..Len(picked) |-> RelativeToMax(picked[k], max_intensity)]
                EXCEPT ![5] = One]
    IN  [location |-> LocationLabels(max_found_at),
         intensity |-> max_intensities,
         intensity_relative_to_max |-> max_intensities_relative]

\* An image has at most MaxImgRows rows and MaxImgCols columns.
MaxImgRows == 3
MaxImgCols == 3

\* 23 / 40 is a tie in exact arithmetic (57.5 hundredths) and 57 on float64.
Intensities == {0, 23, 40}

ProfileInit ==
    /\ \E r \in 1..MaxImgRows : \E c \in 1..MaxImgCols :
           img \in [1..r -> [1..c -> Intensities]]
    /\ profileRes = <<>>

\* A call get_profile_statistics_table(img).
ProfileStatistics ==
    /\ profileRes = <<>>
    /\ profileRes' = <<GetProfileStatisticsTable(img)>>
    /\ UNCHANGED <<img, analysisVars, convVars, tableVars, registryVars>>

-----------------------------------------------------------------------------
(* The specifications: each part of the module on its own, the other       *)
(* parts at rest.                                                          *)

AnalysisIdle ==
    /\ bound = <<>> /\ output = <<>> /\ pc = "idle" /\ locals = <<>>
    /\ lastRun = "none" /\ outputAtCall = <<>> /\ unmetAtCall = <<>>
    /\ validated = <<>> /\ runs = 0
ConvIdle == arr = <<>> /\ maskRes = <<>> /\ imageRes = <<>>
TableIdle == dict = <<>> /\ tableRes = <<>>
RegistryIdle == RegistryInit
ProfileIdle == img = <<>> /\ profileRes = <<>>

InitAnalysis == AnalysisInit /\ ConvIdle /\ TableIdle /\ RegistryIdle /\ ProfileIdle

AnalysisNext ==
    \/ Bind
    \/ Validate
    \/ RunAbort
    \/ RunCompute
    \/ RunAppend
    \/ RunReturn

SpecAnalysis == InitAnalysis /\ [][AnalysisNext]_vars

InitConv == ConvInit /\ AnalysisIdle /\ TableIdle /\ RegistryIdle /\ ProfileIdle

ConvNext ==
    \/ ToMask
    \/ ToImage

SpecConv == InitConv /\ [][ConvNext]_vars

InitTable == TableInit /\ AnalysisIdle /\ ConvIdle /\ RegistryIdle /\ ProfileIdle

TableNext == ToTable

SpecTable == InitTable /\ [][TableNext]_vars

InitRegistry == RegistryInit /\ AnalysisIdle /\ ConvIdle /\ TableIdle /\ ProfileIdle

RegistryNext ==
    \/ RegisterImageAnalysis
    \/ RegisterDatasetAnalysis
    \/ RegisterProgressionAnalysis

SpecRegistry == InitRegistry /\ [][RegistryNext]_vars

InitProfile ==
    ProfileInit /\ AnalysisIdle /\ ConvIdle /\ TableIdle /\ RegistryIdle

ProfileNext == ProfileStatistics

SpecProfile == InitProfile /\ [][ProfileNext]_vars

-----------------------------------------------------------------------------
(* Properties.                                                             *)

\* The offset of an index tuple in the row-major flattening of an array of
\* the given shape: the sum of idx[k] times the product of the later sizes.
RECURSIVE RowMajorOffset(_, _)
RowMajorOffset(idx, shape) ==
    IF idx = <<>> THEN 0
    ELSE Head(idx) * SeqProduct(Tail(shape)) + RowMajorOffset(Tail(idx), Tail(shape))

\* buf holds, at its row-major offset, every element of the array.
IsRowMajorOf(buf, array) ==
    /\ Len(buf) = SeqProduct(array.shape)
    /\ \A idx \in IndexSet(array.shape) :
           buf[RowMajorOffset(idx, array.shape) + 1] = ElemAt(array, idx)

\* The 2-dimensional array read back from a buffer and its two sizes.
Unflatten2D(buf, rows, cols) ==
    [idx \in IndexSet(<<rows, cols>>) |-> buf[idx[1] * cols + idx[2] + 1]]

\* C1: validate_requirements() returns true if and only if
\* list_unmet_requirements() is empty (so it returns false whenever a
\* non-optional requirement has neither a bound value nor a default).
\* Violated: validate_requirements() returns True whatever is bound.
C1_ValidateIffNoneUnmet ==
    validated # <<>> => (validated[1].ret <=> validated[1].unmet = <<>>)

\* C2: a call of run() made while requirements are unmet returns false, does
\* not raise, and leaves the output sequence as it was before the call.
C2_RunWithUnmetReturnsFalse ==
    (lastRun # "none" /\ unmetAtCall # <<>>) =>
        /\ lastRun = "false"
        /\ pc = "idle"
        /\ output = outputAtCall

C2_Witness ==
    /\ lastRun = "false"
    /\ unmetAtCall = <<"image">>
    /\ bound["image"] = <<>>
    /\ output = outputAtCall

\* C3: for the requirements FieldHomogeneityAnalysis declares,
\* list_unmet_requirements() is <<"image">> while "image" is unbound and
\* empty once it is bound, whether or not bitDepth and threshold are bound.
C3_ListUnmetIsImageUntilBound ==
    ListUnmetRequirements(bound) = IF bound["image"] = <<>> THEN <<"image">> ELSE <<>>

C3_Witness ==
    /\ bound["image"] # <<>>
    /\ bound["bitDepth"] = <<>>
    /\ bound["threshold"] = <<>>
    /\ ListUnmetRequirements(bound) = <<>>

\* C4: numpy_to_inlined_image of an array whose number of dimensions is
\* neither 2 nor 5 raises the unsupported-dimensionality error
\* (NotImplementedError), whose message carries that number, and produces no
\* image.
C4_UnsupportedDimensionality ==
    (imageRes # <<>> /\ Len(arr.shape) \notin {2, 5}) =>
        /\ imageRes[1].status = "raised"
        /\ imageRes[1].obj = NoObj
        /\ imageRes[1].exc.class = "NotImplementedError"
        /\ imageRes[1].exc.msg[2] = Len(arr.shape)

C4_Witness ==
    /\ imageRes # <<>>
    /\ Len(arr.shape) = 3
    /\ imageRes[1].status = "raised"
    /\ imageRes[1].exc.msg[2] = 3

\* C5: numpy_to_inlined_mask of a 2-dimensional boolean array returns a mask
\* whose y and x are the array's rows and columns, whose buffer has
\* rows * cols elements, and whose buffer read back row by row with those
\* sizes is the array.
C5_MaskRoundTrip ==
    (maskRes # <<>> /\ Len(arr.shape) = 2 /\ arr.dtype = "bool") =>
        /\ maskRes[1].status = "ok"
        /\ LET m == maskRes[1].obj
           IN  /\ m.kind = "ImageMask"
               /\ m.y.values = arr.shape[1]
               /\ m.x.values = arr.shape[2]
               /\ Len(m.data) = arr.shape[1] * arr.shape[2]
               /\ Unflatten2D(m.data, m.y.values, m.x.values) = arr.content.f

C5_Witness ==
    /\ maskRes # <<>>
    /\ arr.dtype = "bool"
    /\ arr.shape = <<2, 2>>
    /\ ElemAt(arr, <<0, 1>>) # ElemAt(arr, <<1, 0>>)
    /\ maskRes[1].status = "ok"

\* The error numpy_to_inlined_mask raises for an array of the wrong rank.
MaskShapeError ==
    NumpyToInlinedMask([dtype |-> "bool", shape |-> <<1>>, content |-> Ramp], NoMeta).exc

\* Every element of a 2-dimensional uint8 array is 0 or 1.
IsZeroOne(array) == \A idx \in IndexSet(array.shape) : ElemAt(array, idx) \in {0, 1}

\* The mask of a uint8 array of zeros and ones holds false for 0, true for 1.
MaskRoundTripsZeroOne ==
    /\ maskRes[1].status = "ok"
    /\ LET m == maskRes[1].obj
       IN  /\ m.y.values = arr.shape[1]
           /\ m.x.values = arr.shape[2]
           /\ Len(m.data) = arr.shape[1] * arr.shape[2]
           /\ \A idx \in IndexSet(arr.shape) :
                  m.data[idx[1] * arr.shape[2] + idx[2] + 1] = (ElemAt(arr, idx) = 1)

\* C6: numpy_to_inlined_mask of a 2-dimensional array whose dtype is neither
\* bool nor uint8 raises a TypeError, an error of another class than the one
\* raised for a wrong rank; a uint8 array of zeros and ones is converted and
\* round-trips.
\* Violated: the code raises ValueError for the dtype, the class it also
\* raises for a wrong rank.
C6_DtypeErrorIsTypeError ==
    (maskRes # <<>> /\ Len(arr.shape) = 2) =>
        /\ arr.dtype \notin {"bool", "uint8"} =>
               /\ maskRes[1].status = "raised"
               /\ maskRes[1].exc.class = "TypeError"
               /\ maskRes[1].exc.class # MaskShapeError.class
        /\ (arr.dtype = "uint8" /\ IsZeroOne(arr)) => MaskRoundTripsZeroOne

\* What the code does in the cases of C6: the dtype error is a ValueError, of
\* the class of the rank error and told from it by its message only; a uint8
\* array of zeros and ones is converted and round-trips.
MaskDtypeErrorIsValueError ==
    (maskRes # <<>> /\ Len(arr.shape) = 2) =>
        /\ arr.dtype \notin {"bool", "uint8"} =>
               /\ maskRes[1].status = "raised"
               /\ maskRes[1].obj = NoObj
               /\ maskRes[1].exc.class = "ValueError"
               /\ maskRes[1].exc.class = MaskShapeError.class
               /\ maskRes[1].exc.msg = <<"Input array should be of type bool">>
               /\ maskRes[1].exc.msg # MaskShapeError.msg
        /\ (arr.dtype = "uint8" /\ IsZeroOne(arr)) => MaskRoundTripsZeroOne

\* C7: every image numpy_to_inlined_image returns has a buffer as long as
\* the product of its axis sizes; the sizes are (y, x) = shape[0..1] of a
\* 2-dimensional input and (t, z, y, x, c) = shape[0..4] of a 5-dimensional
\* one; the buffer is the row-major flattening of the input.
C7_ImageShapeAndBuffer ==
    (imageRes # <<>> /\ imageRes[1].status = "ok") =>
        LET im == imageRes[1].obj
            shape == arr.shape
        IN  /\ Len(shape) \in {2, 5}
            /\ Len(shape) = 2 =>
                   /\ im.kind = "Image2D"
                   /\ <<im.y.values, im.x.values>> = shape
                   /\ Len(im.data) = im.y.values * im.x.values
            /\ Len(shape) = 5 =>
                   /\ im.kind = "Image5D"
                   /\ <<im.t.values, im.z.values, im.y.values, im.x.values,
                        im.c.values>> = shape
                   /\ Len(im.data) = im.t.values * im.z.values * im.y.values
                                        * im.x.values * im.c.values
            /\ IsRowMajorOf(im.data, arr)

C7_Witness ==
    /\ imageRes # <<>>
    /\ arr.shape = <<1, 2, 1, 2, 2>>
    /\ imageRes[1].status = "ok"
    /\ imageRes[1].obj.kind = "Image5D"
    /\ Len(imageRes[1].obj.data) = 8

\* C8: dict_to_inlined_table returns a table with one column per entry of
\* the dictionary, in the dictionary's order, each with its entry's name and
\* its entry's values in their order; columns of different lengths are
\* accepted.
C8_TableColumnsFollowEntries ==
    tableRes # <<>> =>
        LET t == tableRes[1]
        IN  /\ t.kind = "TableAsDict"
            /\ DOMAIN t.columns = 1..Len(dict)
            /\ \A i \in 1..Len(dict) :
                   /\ t.columns[i].name = dict[i].key
                   /\ t.columns[i].values = dict[i].value

C8_Witness ==
    /\ tableRes # <<>>
    /\ Len(dict) = 2
    /\ Len(dict[1].value) # Len(dict[2].value)
    /\ tableRes[1].columns[1].name = dict[1].key
    /\ tableRes[1].columns[2].values = dict[2].value

\* The registry of the given kind.
RegistryOf(r, im, ds, pr) ==
    CASE r = "image" -> im
      [] r = "dataset" -> ds
      [] r = "progression" -> pr

\* The positions of the log at which a class named n was registered in r.
RegistrationsOf(log, r, n) ==
    {i \in 1..Len(log) : log[i].registry = r /\ log[i].cls.name = n}

SetMax(S) == CHOOSE x \in S : \A y \in S : y <= x

\* Each registry holds, under each name ever registered in it, the class
\* registered last under that name, and holds no other name.
RegistriesHoldLatest ==
    \A r \in Registries :
        LET reg == RegistryOf(r, imageRegistry, datasetRegistry, progressionRegistry)
        IN  /\ DOMAIN reg = {n \in ClassNames : RegistrationsOf(regLog, r, n) # {}}
            /\ \A n \in DOMAIN reg :
                   reg[n] = regLog[SetMax(RegistrationsOf(regLog, r, n))].cls

\* One registration changes one entry of one registry and removes none.
RegistrationFrame ==
    /\ regLog' = regLog \/ (Len(regLog') = Len(regLog) + 1 /\ IsPrefix(regLog, regLog'))
    /\ \A r \in Registries :
           LET old == RegistryOf(r, imageRegistry, datasetRegistry, progressionRegistry)
               new == RegistryOf(r, imageRegistry', datasetRegistry', progressionRegistry')
               last == regLog'[Len(regLog')]
           IN  /\ DOMAIN old \subseteq DOMAIN new
               /\ (regLog' # regLog /\ last.registry = r) =>
                      /\ new[last.cls.name] = last.cls
                      /\ \A n \in DOMAIN new \ {last.cls.name} :
                             n \in DOMAIN old /\ new[n] = old[n]
               /\ (regLog' = regLog \/ last.registry # r) => new = old

\* C9: each registry maps each name to the class most recently registered
\* under it there; a second registration under a name overwrites the first;
\* a registration leaves the other registries and the other entries of its
\* own registry unchanged; no entry is ever removed.
C9_RegistriesLastWins == []RegistriesHoldLatest /\ [][RegistrationFrame]_vars

C9_Witness ==
    /\ Len(regLog) = 2
    /\ regLog[1].registry = "image"
    /\ regLog[2].registry = "image"
    /\ regLog[1].cls.name = "FieldHomogeneityAnalysis"
    /\ regLog[2].cls.name = "FieldHomogeneityAnalysis"
    /\ regLog[1].cls # regLog[2].cls
    /\ imageRegistry["FieldHomogeneityAnalysis"] = regLog[2].cls
    /\ datasetRegistry = EmptyRegistry
    /\ progressionRegistry = EmptyRegistry

NamesOfOutput(out) == [i \in 1..Len(out) |-> out[i].name]

FieldHomogeneityTables ==
    <<"max_intensity_region_table", "norm_intensity_data", "intensity_plot_data",
      "profile_stat_table">>

\* After run() has returned true the output is what it was at the call
\* followed by the four tables, in order; on a fresh instance it is those four.
RunOutputIsFourTables ==
    lastRun = "true" =>
        /\ IsPrefix(outputAtCall, output)
        /\ Len(output) = Len(outputAtCall) + 4
        /\ NamesOfOutput(SubSeq(output, Len(outputAtCall) + 1, Len(output)))
               = FieldHomogeneityTables
        /\ \A i \in 1..Len(output) : output[i].kind = "Table"
        /\ outputAtCall = <<>> => NamesOfOutput(output) = FieldHomogeneityTables

\* C10: during run() every step extends the output sequence (nothing is
\* removed, replaced or reordered), and when run() returns true the output
\* holds the four tables max_intensity_region_table, norm_intensity_data,
\* intensity_plot_data, profile_stat_table, in that order.
C10_OutputAppendOnly == [][IsPrefix(output, output')]_vars /\ []RunOutputIsFourTables

C10_Witness ==
    /\ lastRun = "true"
    /\ pc = "idle"
    /\ outputAtCall = <<>>
    /\ Len(output) = 4
    /\ output[1].name = "max_intensity_region_table"
    /\ output[4].name = "profile_stat_table"

\* C11: the nine intensities follow the nine labels: top-left img[0][0],
\* upper-middle img[0][cols//2], top-right img[0][last], left-middle
\* img[rows//2][0], the image maximum (relative value 1.0), right-middle
\* img[rows//2][last], bottom-left img[last][0], bottom-middle
\* img[last][cols//2], bottom-right img[last][last].
\* Violated: the grid is read transposed, so the second value is
\* img[rows//2][0], the third img[last][0], and so on.
C11_IntensitiesFollowLabels ==
    profileRes # <<>> =>
        LET mid_row == ImgRows(img) \div 2
            mid_col == ImgCols(img) \div 2
            last_row == ImgRows(img) - 1
            last_col == ImgCols(img) - 1
        IN  /\ profileRes[1].intensity =
                   << PixelAt(img, 0, 0), PixelAt(img, 0, mid_col),
                      PixelAt(img, 0, last_col),
                      PixelAt(img, mid_row, 0), ImgMax(img),
                      PixelAt(img, mid_row, last_col),
                      PixelAt(img, last_row, 0), PixelAt(img, last_row, mid_col),
                      PixelAt(img, last_row, last_col) >>
            /\ profileRes[1].intensity_relative_to_max[5] = One

=============================================================================
